---- MODULE Spec2Model ----
(***************************************************************************)
(* Model of checks.go (aeacus): runCheck, the modifier resolver, the       *)
(* argument validator requireArgs and the six predicates.                  *)
(*                                                                         *)
(* A Go string is a sequence of one-character strings, so that slicing     *)
(* (cond.Type[len-3:len]), strings.Split, strings.Contains and             *)
(* strings.TrimSpace are computed on characters.                           *)
(***************************************************************************)
EXTENDS Integers, Sequences, FiniteSets, TLC

VARIABLES
    host,       \* the machine: filesystem, command, obfuscation collaborator
    queue,      \* conditions the scoring loop still has to evaluate
    cond,       \* runCheck's own copy of the condition (passed by value)
    pc,         \* position in runCheck
    condFunc,   \* runCheck local
    negation,   \* runCheck local
    defers,     \* deferred calls of the running runCheck, next to run first
    panicking,  \* the panic in flight: "none", "ValueError", "runtime"
    vals,       \* what the reflected call returned
    ret,        \* runCheck's result
    invoked,    \* the method the reflected call reached, and the regex flag it saw
    log,        \* fail/warn messages of this evaluation, with their counts
    trace,      \* calls to the obfuscation collaborator in this evaluation
    history     \* finished evaluations

vars == <<host, queue, cond, pc, condFunc, negation, defers, panicking, vals,
          ret, invoked, log, trace, history>>

----------------------------------------------------------------------------
(* Bounds of the model *)

\* longest file content, in characters
MaxContent == 3
\* longest Value (literal or pattern), in characters
MaxValue == 2
\* longest directory walk, in runs of entries
MaxRuns == 3

\* the file cap of DirContains
MaxFiles == 10000

----------------------------------------------------------------------------
(* Names *)

not == <<"N","o","t">>
regex == <<"R","e","g","e","x">>

nPathExists == <<"P","a","t","h","E","x","i","s","t","s">>
nFileContains == <<"F","i","l","e","C","o","n","t","a","i","n","s">>
nFileEquals == <<"F","i","l","e","E","q","u","a","l","s">>
nCommandOutput == <<"C","o","m","m","a","n","d","O","u","t","p","u","t">>
nCommandContains == <<"C","o","m","m","a","n","d","C","o","n","t","a","i","n","s">>
nDirContains == <<"D","i","r","C","o","n","t","a","i","n","s">>
nString == <<"S","t","r","i","n","g">>

\* the methods of cond that return (bool, error)
Predicates ==
    {nPathExists, nFileContains, nFileEquals, nCommandOutput, nCommandContains,
     nDirContains}

\* reflect sees the exported methods only: requireArgs is not one of them
ExportedMethods == Predicates \cup {nString}

\* the zero reflect.Value
Invalid == <<>>

MethodByName(name) == IF name \in ExportedMethods THEN name ELSE Invalid

\* the string fields of cond that requireArgs looks at, in declaration order
ParamSlots == <<"Path", "Cmd", "User", "Group", "Name", "Key", "Value", "After">>

SlotSet == {ParamSlots[i] : i \in DOMAIN ParamSlots}

----------------------------------------------------------------------------
(* Go's string operations *)

\* s[lo:hi]; a slice out of range panics
OutOfRange == <<"panic: slice bounds out of range">>

Slice(s, lo, hi) ==
    IF lo < 0 \/ hi > Len(s) \/ lo > hi THEN OutOfRange ELSE SubSeq(s, lo + 1, hi)

\* strings.Contains
Contains(s, sub) ==
    \E i \in 1..(Len(s) + 1) :
        /\ i + Len(sub) - 1 <= Len(s)
        /\ SubSeq(s, i, i + Len(sub) - 1) = sub

\* strings.Split(s, "\n"): always at least one piece
RECURSIVE SplitFrom(_, _, _)
SplitFrom(s, i, cur) ==
    IF i > Len(s) THEN <<cur>>
    ELSE IF s[i] = "\n" THEN <<cur>> \o SplitFrom(s, i + 1, <<>>)
    ELSE SplitFrom(s, i + 1, Append(cur, s[i]))

Split(s) == SplitFrom(s, 1, <<>>)

IsSpace(ch) == ch \in {" ", "\n", "\t", "\r"}

\* strings.TrimSpace
RECURSIVE TrimLeft(_)
TrimLeft(s) == IF s # <<>> /\ IsSpace(Head(s)) THEN TrimLeft(Tail(s)) ELSE s

RECURSIVE TrimRight(_)
TrimRight(s) ==
    IF s # <<>> /\ IsSpace(s[Len(s)]) THEN TrimRight(SubSeq(s, 1, Len(s) - 1)) ELSE s

TrimSpace(s) == TrimRight(TrimLeft(s))

(* regexp.Match(pattern, text) for the patterns of the model: a literal      *)
(* character matches itself, "." any character, "^" the start of the text,  *)
(* and "[" opens a class that is never closed, which does not compile.      *)
Compiles(pattern) == \A i \in DOMAIN pattern : pattern[i] # "["

RECURSIVE MatchAt(_, _, _)
MatchAt(pattern, text, i) ==
    IF pattern = <<>> THEN TRUE
    ELSE IF Head(pattern) = "^" THEN i = 1 /\ MatchAt(Tail(pattern), text, i)
    ELSE /\ i <= Len(text)
         /\ Head(pattern) \in {".", text[i]}
         /\ MatchAt(Tail(pattern), text, i + 1)

RegexpMatch(pattern, text) ==
    IF ~Compiles(pattern) THEN [matched |-> FALSE, err |-> "regex"]
    ELSE [matched |-> \E i \in 1..(Len(text) + 1) : MatchAt(pattern, text, i),
          err |-> "nil"]

(* hex.EncodeToString(sha256(content)): a stand-in digest of two hex digits  *)
(* (a positional sum of character codes, modulo 256).  Nothing settled here *)
(* rests on the digest being free of collisions.                            *)
HexDigits == <<"0","1","2","3","4","5","6","7","8","9","a","b","c","d","e","f">>

Code(ch) ==
    CASE ch = "a" -> 97 [] ch = "b" -> 98 [] ch = "\n" -> 10 [] ch = " " -> 32
      [] OTHER -> 63

RECURSIVE DigestSum(_, _)
DigestSum(s, acc) ==
    IF s = <<>> THEN acc ELSE DigestSum(Tail(s), (acc * 31 + Code(Head(s))) % 256)

Sha256Hex(content) ==
    LET d == DigestSum(content, 7)
    IN  <<HexDigits[(d \div 16) + 1], HexDigits[(d % 16) + 1]>>

----------------------------------------------------------------------------
(* The collaborators, answered by the host *)

\* os.Stat(path): "nil", "notexist" (os.IsNotExist), or another error
Stat(h, path) == IF path = <<>> THEN "notexist" ELSE h.stat

RunDigits == <<"1", "2", "3", "4", "5", "6">>

\* the path filepath.Walk reports for the files of run i below root
WalkPath(root, i) == root \o <<"/", RunDigits[i]>>

IsWalkPath(path) ==
    /\ Len(path) >= 2
    /\ path[Len(path) - 1] = "/"
    /\ \E i \in DOMAIN RunDigits : path[Len(path)] = RunDigits[i]

RunOf(path) == CHOOSE i \in DOMAIN RunDigits : path[Len(path)] = RunDigits[i]

\* readFile(path): the content and an error ("nil", "perm" for a permission
\* error, "notexist", "io")
readFile(h, path) ==
    IF path = <<>> THEN [content |-> <<>>, err |-> "notexist"]
    ELSE IF IsWalkPath(path) /\ RunOf(path) \in DOMAIN h.tree
         THEN h.tree[RunOf(path)].file
    ELSE h.file

\* os.IsPermission
IsPermission(err) == err = "perm"

\* shellCommandOutput(cmd): the combined output and whether it failed
shellCommandOutput(h, cmd) == h.cmd

----------------------------------------------------------------------------
(* Messages of fail and warn, kept with the number of times each was sent *)

Msg(sev, what, type, arg) == [sev |-> sev, what |-> what, type |-> type, arg |-> arg]

EmptyLog == [m \in {} |-> 0]

Count(l, m) == IF m \in DOMAIN l THEN l[m] ELSE 0

\* every message of msgs sent n more times
Send(l, msgs, n) ==
    IF n = 0 THEN l
    ELSE [m \in DOMAIN l \cup msgs |-> Count(l, m) + (IF m \in msgs THEN n ELSE 0)]

\* fail prints the message and returns: runCheck goes on to `return false`
fail(l, what, type, arg) == Send(l, {Msg("fail", what, type, arg)}, 1)

warn(l, what, type, arg) == Send(l, {Msg("warn", what, type, arg)}, 1)

----------------------------------------------------------------------------
(* requireArgs: the messages one call sends *)

requireArgs(c, args) ==
    IF c.Type = <<>> THEN {}
    ELSE {Msg("fail", "missing required argument", c.Type, s) :
              s \in {x \in SlotSet : x \in args /\ c[x] = <<>>}}
         \cup
         {Msg("warn", "specifying unused argument", c.Type, s) :
              s \in {x \in SlotSet : x \notin args /\ c[x] # <<>>}}

----------------------------------------------------------------------------
(* The predicates.  Each returns what the method returns (result, err), the  *)
(* messages it sent, whether it panicked, and how many files it read.       *)

Returned(result, err, l, reads) ==
    [result |-> result, err |-> err, log |-> l, panicked |-> FALSE, reads |-> reads]

Panicked(l, reads) ==
    [result |-> FALSE, err |-> "nil", log |-> l, panicked |-> TRUE, reads |-> reads]

PathExists(c, h) ==
    LET l == Send(EmptyLog, requireArgs(c, {"Path"}), 1)
        err == Stat(h, c.Path)
    IN  IF err = "notexist" THEN Returned(FALSE, "nil", l, 0)
        ELSE IF err # "nil" THEN Returned(FALSE, err, l, 0)
        ELSE Returned(TRUE, "nil", l, 0)

\* the loop over the lines of FileContains: found and err after it
LineLoopNoBreak(lines, c) ==
    LET last == lines[Len(lines)]
        bad == c.regex /\ ~Compiles(c.Value)
    IN  IF bad THEN [found |-> FALSE, err |-> "regex", returned |-> TRUE]
        ELSE [found |-> IF c.regex THEN RegexpMatch(c.Value, last).matched
                        ELSE Contains(last, c.Value),
              err |-> "nil", returned |-> FALSE]

RECURSIVE LineLoopFrom(_, _, _)
LineLoopFrom(lines, i, c) ==
    IF i > Len(lines) THEN [found |-> FALSE, err |-> "nil", returned |-> FALSE]
    ELSE IF c.regex
    THEN LET m == RegexpMatch(c.Value, lines[i])
         IN  IF m.err # "nil" THEN [found |-> FALSE, err |-> m.err, returned |-> TRUE]
             ELSE IF m.matched THEN [found |-> TRUE, err |-> "nil", returned |-> FALSE]
             ELSE LineLoopFrom(lines, i + 1, c)
    ELSE IF Contains(lines[i], c.Value)
         THEN [found |-> TRUE, err |-> "nil", returned |-> FALSE]
         ELSE LineLoopFrom(lines, i + 1, c)

LineLoop(lines, c) == LineLoopFrom(lines, 1, c)

FileContains(c, h) ==
    LET l == Send(EmptyLog, requireArgs(c, {"Path", "Value"}), 1)
        f == readFile(h, c.Path)
    IN  IF f.err # "nil" THEN Returned(FALSE, f.err, l, 1)
        ELSE LET r == LineLoop(Split(f.content), c)
             IN  Returned(r.found, r.err, l, 1)

FileEquals(c, h) ==
    LET l == Send(EmptyLog, requireArgs(c, {"Path", "Value"}), 1)
        f == readFile(h, c.Path)
    IN  IF f.err # "nil" THEN Returned(FALSE, f.err, l, 1)
        ELSE Returned(Sha256Hex(f.content) = c.Value, "nil", l, 1)

CommandContains(c, h) ==
    LET l == Send(EmptyLog, requireArgs(c, {"Cmd", "Value"}), 1)
        o == shellCommandOutput(h, c.Cmd)
    IN  IF o.err # "nil" THEN Returned(FALSE, o.err, l, 0)
        ELSE IF c.regex
        THEN LET m == RegexpMatch(c.Value, TrimSpace(o.out))
             IN  Returned(m.matched, m.err, l, 0)
        ELSE Returned(Contains(TrimSpace(o.out), c.Value), o.err, l, 0)

CommandOutput(c, h) ==
    LET l == Send(EmptyLog, requireArgs(c, {"Cmd", "Value"}), 1)
        o == shellCommandOutput(h, c.Cmd)
    IN  Returned(TrimSpace(o.out) = c.Value, o.err, l, 0)

\* a cond with only these fields set: cond{Path: path}
ZeroCond ==
    [Hint |-> <<>>, Type |-> <<>>, Path |-> <<>>, Cmd |-> <<>>, User |-> <<>>,
     Group |-> <<>>, Name |-> <<>>, Key |-> <<>>, Value |-> <<>>, After |-> <<>>,
     regex |-> FALSE]

\* l and, n times over, the messages of l2
Join(l, l2, n) ==
    IF n = 0 THEN l
    ELSE [m \in DOMAIN l \cup DOMAIN l2 |-> Count(l, m) + n * Count(l2, m)]

(* The directory walk.  filepath.Walk calls the callback once per entry, in  *)
(* lexical order; the host gives the entries as runs of n like entries      *)
(* (kind "file", "dir", or "nilinfo" for an entry whose Lstat failed, which *)
(* Walk reports with a nil FileInfo).  files is kept as runs too: len(files)*)
(* is the sum of their lengths, and a run of like files is appended and     *)
(* searched as the loop would, file by file.                                *)
RECURSIVE FilesLen(_)
FilesLen(files) == IF files = <<>> THEN 0 ELSE Head(files).n + FilesLen(Tail(files))

OverCapOffByOne(n) == n >= MaxFiles

\* len(files) > 10000
OverCap(n) == n > MaxFiles

RECURSIVE WalkFrom(_, _, _, _)
WalkFrom(h, root, i, files) ==
    IF i > Len(h.tree) THEN [files |-> files, err |-> "nil", panicked |-> FALSE]
    ELSE LET e == h.tree[i]
         IN  IF e.kind = "nilinfo"
             THEN [files |-> files, err |-> "nil", panicked |-> TRUE]
             ELSE LET files2 == IF e.kind # "dir"
                                THEN Append(files, [path |-> WalkPath(root, i), n |-> e.n])
                                ELSE files
                  IN  IF OverCap(FilesLen(files2))
                      THEN [files |-> files2, err |-> "toomany", panicked |-> FALSE]
                      ELSE WalkFrom(h, root, i + 1, files2)

\* the loop over files: a permission error halts it, the first match ends it
RECURSIVE SearchFrom(_, _, _, _, _, _)
SearchFrom(c, h, files, i, l, reads) ==
    IF i > Len(files) THEN Returned(FALSE, "nil", l, reads)
    ELSE LET r == FileContains([c EXCEPT !.Path = files[i].path], h)
         IN  IF IsPermission(r.err)
             THEN Returned(FALSE, r.err, Join(l, r.log, 1), reads + 1)
             ELSE IF r.result
             THEN Returned(TRUE, "nil", Join(l, r.log, 1), reads + 1)
             ELSE SearchFrom(c, h, files, i + 1, Join(l, r.log, files[i].n),
                             reads + files[i].n)

DirContains(c, h) ==
    LET l == Send(EmptyLog, requireArgs(c, {"Path", "Value"}), 1)
        e == PathExists([ZeroCond EXCEPT !.Path = c.Path], h)
    IN  IF e.err # "nil" THEN Returned(FALSE, e.err, l, 0)
        ELSE IF ~e.result THEN Returned(FALSE, "path does not exist", l, 0)
        ELSE LET w == WalkFrom(h, c.Path, 1, <<>>)
             IN  IF w.panicked THEN Panicked(l, 0)
                 ELSE IF w.err # "nil" THEN Returned(FALSE, w.err, l, 0)
                 ELSE SearchFrom(c, h, w.files, 1, l, 0)

\* reflect.ValueOf(cond).MethodByName(m).Call(nil) for a predicate m
Call(m, c, h) ==
    CASE m = nPathExists -> PathExists(c, h)
      [] m = nFileContains -> FileContains(c, h)
      [] m = nFileEquals -> FileEquals(c, h)
      [] m = nCommandOutput -> CommandOutput(c, h)
      [] m = nCommandContains -> CommandContains(c, h)
      [] m = nDirContains -> DirContains(c, h)

----------------------------------------------------------------------------
(* runCheck *)

\* len(cond.Type) <= len(regex)
TooShortBelowNot(type) == Len(type) < Len(not)

TooShort(type) == Len(type) <= Len(regex)

\* the suffix tests of runCheck: both look at cond.Type
ResolveOnRemainder(type) ==
    LET n == Len(type)
        isNot == Slice(type, n - Len(not), n) = not
        f1 == IF isNot THEN Slice(type, 0, n - Len(not)) ELSE type
        n1 == Len(f1)
        isRegex == Slice(f1, n1 - Len(regex), n1) = regex
    IN  [negation |-> isNot,
         regex |-> isRegex,
         condFunc |-> IF isRegex THEN Slice(f1, 0, n1 - Len(regex)) ELSE f1,
         panicked |-> OutOfRange \in {Slice(type, n - Len(not), n),
                                      Slice(f1, n1 - Len(regex), n1)}]

Resolve(type) ==
    LET n == Len(type)
        notTail == Slice(type, n - Len(not), n)
        regexTail == Slice(type, n - Len(regex), n)
        f1 == IF notTail = not THEN Slice(type, 0, n - Len(not)) ELSE type
    IN  [negation |-> notTail = not,
         regex |-> regexTail = regex,
         condFunc |-> IF regexTail = regex THEN Slice(type, 0, n - Len(regex)) ELSE f1,
         panicked |-> OutOfRange \in {notTail, regexTail}]

\* cond.regex = false
KeepRegex(c) == c

ResetRegex(c) == [c EXCEPT !.regex = FALSE]

\* defer obfuscateCond(&cond), reached whether or not deobfuscateCond failed
DeferObfuscateUnlessFailed(stack, failed) ==
    IF failed THEN stack ELSE <<"obfuscateCond">> \o stack

DeferObfuscate(stack, failed) == <<"obfuscateCond">> \o stack

\* the value runCheck returns from the call's result and error
OutcomeUngated(neg, result, err) == IF neg THEN ~result ELSE err = "nil" /\ result

Outcome(neg, result, err) ==
    IF neg THEN err = "nil" /\ ~result ELSE err = "nil" /\ result

NoVals == [called |-> FALSE, result |-> FALSE, err |-> "nil", reads |-> 0]

NotInvoked == [method |-> Invalid, regex |-> FALSE]

\* lines 108-118: reveal the values, schedule their hiding, clear the locals
RunCheckEnter ==
    /\ pc = "idle"
    /\ queue # <<>>
    /\ cond' = ResetRegex(Head(queue))
    /\ trace' = <<"deobfuscateCond">>
    /\ log' = IF host.deobfErr THEN fail(EmptyLog, "deobfuscate", <<>>, "") ELSE EmptyLog
    /\ defers' = DeferObfuscate(<<>>, host.deobfErr)
    /\ condFunc' = <<>>
    /\ negation' = FALSE
    /\ panicking' = "none"
    /\ vals' = NoVals
    /\ ret' = FALSE
    /\ invoked' = NotInvoked
    /\ pc' = "resolve"
    /\ UNCHANGED <<host, queue, history>>

\* lines 120-136: the length check and the suffixes
ResolveModifiers ==
    /\ pc = "resolve"
    /\ IF TooShort(cond.Type)
       THEN /\ log' = fail(log, "is not long enough to be valid", cond.Type, "")
            /\ ret' = FALSE
            /\ pc' = "deferred"
            /\ UNCHANGED <<cond, condFunc, negation, defers, panicking>>
       ELSE LET r == Resolve(cond.Type)
            IN  IF r.panicked
                THEN /\ panicking' = "runtime"
                     /\ pc' = "deferred"
                     /\ UNCHANGED <<cond, condFunc, negation, defers, log, ret>>
                ELSE /\ cond' = IF r.regex THEN [cond EXCEPT !.regex = TRUE] ELSE cond
                     /\ condFunc' = r.condFunc
                     /\ negation' = r.negation
                     /\ defers' = <<"handleReflectPanic">> \o defers
                     /\ pc' = "call"
                     /\ UNCHANGED <<panicking, log, ret>>
    /\ UNCHANGED <<host, queue, vals, invoked, trace, history>>

\* lines 139-141: the reflected call, and the reading of its two results
CallPredicate ==
    /\ pc = "call"
    /\ LET m == MethodByName(condFunc)
       IN  IF m \notin Predicates
           THEN \* Call on the zero Value, or Bool() on String's result
                /\ panicking' = "ValueError"
                /\ invoked' = [method |-> m, regex |-> cond.regex]
                /\ pc' = "deferred"
                /\ UNCHANGED <<vals, log>>
           ELSE LET r == Call(m, cond, host)
                IN  /\ invoked' = [method |-> m, regex |-> cond.regex]
                    /\ log' = Join(log, r.log, 1)
                    /\ IF r.panicked
                       THEN /\ panicking' = "runtime"
                            /\ pc' = "deferred"
                            /\ UNCHANGED vals
                       ELSE /\ vals' = [called |-> TRUE, result |-> r.result,
                                        err |-> r.err, reads |-> r.reads]
                            /\ pc' = "combine"
                            /\ UNCHANGED panicking
    /\ UNCHANGED <<host, queue, cond, condFunc, negation, defers, ret, trace, history>>

\* lines 143-154
CombineResult ==
    /\ pc = "combine"
    /\ ret' = Outcome(negation, vals.result, vals.err)
    /\ log' = IF ~negation /\ host.verboseEnabled /\ vals.err # "nil"
              THEN warn(log, "returned an error", condFunc, vals.err)
              ELSE log
    /\ pc' = "deferred"
    /\ UNCHANGED <<host, queue, cond, condFunc, negation, defers, panicking, vals,
                   invoked, trace, history>>

\* one deferred call, the last deferred first
RunDeferred ==
    /\ pc = "deferred"
    /\ defers # <<>>
    /\ defers' = Tail(defers)
    /\ IF Head(defers) = "handleReflectPanic"
       THEN \* recover(), then r.(*reflect.ValueError): another panic value
            \* fails the assertion and panics again
            /\ IF panicking = "ValueError"
               THEN /\ log' = fail(log, "Check type does not exist", condFunc, "")
                    /\ panicking' = "none"
               ELSE UNCHANGED <<log, panicking>>
            /\ UNCHANGED trace
       ELSE /\ trace' = Append(trace, "obfuscateCond")
            /\ UNCHANGED <<log, panicking>>
    /\ UNCHANGED <<host, queue, cond, pc, condFunc, negation, vals, ret, invoked,
                   history>>

\* control leaves runCheck: it returns ret, or the panic goes on to the caller
RunCheckLeave ==
    /\ pc = "deferred"
    /\ defers = <<>>
    /\ history' = Append(history,
                    [Type |-> cond.Type,
                     given |-> Head(queue),
                     outcome |-> IF panicking = "none" THEN "returned" ELSE "crashed",
                     ret |-> ret,
                     condFunc |-> condFunc,
                     negation |-> negation,
                     invoked |-> invoked,
                     vals |-> vals,
                     log |-> log,
                     trace |-> trace])
    /\ queue' = Tail(queue)
    /\ pc' = IF panicking = "none" THEN "idle" ELSE "crashed"
    /\ UNCHANGED <<host, cond, condFunc, negation, defers, panicking, vals, ret,
                   invoked, log, trace>>

Next ==
    \/ RunCheckEnter
    \/ ResolveModifiers
    \/ CallPredicate
    \/ CombineResult
    \/ RunDeferred
    \/ RunCheckLeave

----------------------------------------------------------------------------
(* Inputs: the conditions the configuration supplies and the hosts they are  *)
(* evaluated on                                                              *)

\* all sequences over alphabet of length at most n
SeqsUpTo(alphabet, n) == UNION {[1..k -> alphabet] : k \in 0..n}

File(content, err) == [content |-> content, err |-> err]

Run(kind, n, file) == [kind |-> kind, n |-> n, file |-> file]

NoFile == File(<<>>, "nil")

DefaultHost ==
    [deobfErr |-> FALSE,
     verboseEnabled |-> FALSE,
     stat |-> "nil",
     file |-> File(<<"a", "\n", "b">>, "nil"),
     cmd |-> [out |-> <<" ", "a", "\n">>, err |-> "nil"],
     tree |-> <<>>]

MkCond(type, flag, slots) ==
    [Hint |-> <<>>, Type |-> type, Path |-> slots.Path, Cmd |-> slots.Cmd,
     User |-> slots.User, Group |-> slots.Group, Name |-> slots.Name,
     Key |-> slots.Key, Value |-> slots.Value, After |-> slots.After,
     regex |-> flag]

NoSlots == [s \in SlotSet |-> <<>>]

\* Path, Cmd and Value given, nothing else
UsualSlots(value) ==
    [NoSlots EXCEPT !.Path = <<"p">>, !.Cmd = <<"c">>, !.Value = value]

\* a stem and its suffixed forms, as one list of conditions on the same slots
Variants(stem) ==
    <<stem, stem \o not, stem \o regex, stem \o not \o regex, stem \o regex \o not>>

nExists == <<"E", "x", "i", "s", "t", "s">>
nRequireArgs == <<"r", "e", "q", "u", "i", "r", "e", "A", "r", "g", "s">>

Stems == Predicates \cup {<<>>, nString, nExists, nRequireArgs}

TypeLists == {Variants(stem) : stem \in Stems} \cup {<<<<>>, nExists, nString, nFileContains>>}

InitLocals ==
    /\ pc = "idle"
    /\ cond = ZeroCond
    /\ condFunc = <<>>
    /\ negation = FALSE
    /\ defers = <<>>
    /\ panicking = "none"
    /\ vals = NoVals
    /\ ret = FALSE
    /\ invoked = NotInvoked
    /\ log = EmptyLog
    /\ trace = <<>>
    /\ history = <<>>

\* hosts that differ from the default one in one collaborator's answer
DispatchHosts ==
    {[DefaultHost EXCEPT !.stat = e] : e \in {"nil", "notexist", "perm"}}
    \cup {[DefaultHost EXCEPT !.file = f] :
            f \in {File(<<"b">>, "nil"), File(<<>>, "perm"), File(<<>>, "io")}}
    \cup {[DefaultHost EXCEPT !.cmd = [out |-> o, err |-> e]] :
            o \in {<<" ", "a", "\n">>, <<"b">>}, e \in {"nil", "exit status 1"}}
    \cup {[DefaultHost EXCEPT !.tree = t] :
            t \in {<<Run("file", 1, File(<<"a">>, "nil"))>>,
                   <<Run("file", 1, File(<<>>, "io"))>>,
                   <<Run("file", 1, File(<<"b">>, "nil")),
                     Run("file", 1, File(<<"a">>, "nil"))>>,
                   <<Run("file", 1, File(<<>>, "perm")),
                     Run("file", 1, File(<<"a">>, "nil"))>>}}

DispatchValues == {<<"a">>, <<"[">>, <<>>, Sha256Hex(<<"a", "\n", "b">>)}

\* every suffixed form of every name, on hosts of every kind
Init ==
    /\ InitLocals
    /\ \E h \in DispatchHosts, d \in BOOLEAN : host = [h EXCEPT !.deobfErr = d]
    /\ \E types \in TypeLists, v \in DispatchValues, flag \in BOOLEAN :
         queue = [i \in DOMAIN types |-> MkCond(types[i], flag, UsualSlots(v))]

Spec == Init /\ [][Next]_vars

\* every choice of filled slots, for every predicate
ArgsHosts ==
    {[DefaultHost EXCEPT !.tree = t, !.verboseEnabled = b, !.file = f] :
        t \in {<<>>, <<Run("file", 2, File(<<"b">>, "nil"))>>},
        b \in BOOLEAN,
        f \in {File(<<"a">>, "nil"), File(<<>>, "io")}}

InitArgs ==
    /\ InitLocals
    /\ host \in ArgsHosts
    /\ \E type \in Predicates, filled \in SUBSET SlotSet :
         queue = <<MkCond(type, FALSE,
                          [s \in SlotSet |-> IF s \in filled THEN <<"a">> ELSE <<>>])>>

SpecArgs == InitArgs /\ [][Next]_vars

\* FileContains, literal and regex, on every small file
FileHosts ==
    {[DefaultHost EXCEPT !.file = File(c, "nil")] :
        c \in SeqsUpTo({"a", "b", "\n"}, MaxContent)}
    \cup {[DefaultHost EXCEPT !.file = File(<<>>, e)] : e \in {"perm", "notexist"}}

InitFile ==
    /\ InitLocals
    /\ host \in FileHosts
    /\ \E v \in SeqsUpTo({"a", "^", "["}, MaxValue) :
         queue = <<MkCond(nFileContains, FALSE, UsualSlots(v)),
                   MkCond(nFileContains \o regex, FALSE, UsualSlots(v))>>

SpecFile == InitFile /\ [][Next]_vars

\* DirContains on every short walk; at most one run is long
Entries ==
    {Run("dir", 1, NoFile), Run("nilinfo", 1, NoFile)}
    \cup {Run("file", 1, f) :
            f \in {File(<<"a">>, "nil"), File(<<"b">>, "nil"), File(<<>>, "perm"),
                   File(<<>>, "io")}}

LongRuns ==
    {Run("file", n, f) :
        n \in {MaxFiles - 1, MaxFiles},
        f \in {File(<<"a">>, "nil"), File(<<"b">>, "nil")}}

Trees ==
    {t \in UNION {[1..k -> Entries \cup LongRuns] : k \in 0..MaxRuns} :
        Cardinality({i \in DOMAIN t : t[i].n > 1}) <= 1}

DirHosts ==
    {[DefaultHost EXCEPT !.tree = t] : t \in Trees}
    \cup {[DefaultHost EXCEPT !.stat = e] : e \in {"notexist", "perm"}}

InitDir ==
    /\ InitLocals
    /\ host \in DirHosts
    /\ queue = <<MkCond(nDirContains, FALSE, UsualSlots(<<"a">>))>>

SpecDir == InitDir /\ [][Next]_vars

----------------------------------------------------------------------------
(* Properties.  Each is stated over history: one record per evaluation,     *)
(* written when control leaves runCheck.  All evaluations of one behaviour  *)
(* share the host and the slots; they differ in Type.                       *)

Evals == DOMAIN history

\* the Type ends in the suffix, read off the characters
EndsWith(type, suffix) ==
    /\ Len(type) >= Len(suffix)
    /\ \A k \in DOMAIN suffix : type[Len(type) - Len(suffix) + k] = suffix[k]

NoSuchMethod(e) ==
    \E m \in DOMAIN e.log : m.sev = "fail" /\ m.what = "Check type does not exist"

\* C1: when the predicate returns a nil error, runCheck on T+"Not" is the
\* negation of runCheck on T; when it returns an error (whatever boolean comes
\* with it), runCheck is false for both.
C1_NotNegatesUnlessError ==
    \A i, j \in Evals :
        LET a == history[i]
            b == history[j]
        IN  (a.Type \in Predicates /\ b.Type = a.Type \o not /\ a.vals.called)
            => /\ b.invoked.method = a.Type
               /\ b.vals.called
               /\ a.vals.err = "nil" => b.ret = ~a.ret
               /\ a.vals.err # "nil" => ~a.ret /\ ~b.ret

\* CommandOutput returned true together with an error, and both forms ran
C1_Witness ==
    \E i, j \in Evals :
        /\ history[i].Type = nCommandOutput
        /\ history[j].Type = nCommandOutput \o not
        /\ history[i].vals.called /\ history[i].vals.result
        /\ history[i].vals.err # "nil"

\* C2: a Type of B+"NotRegex" resolves to base B with negate and regex set, and
\* runCheck invokes B with the regex flag and negates its result.
C2_NotRegexResolves ==
    \A i \in Evals : \A B \in Predicates :
        LET e == history[i]
        IN  e.Type = B \o not \o regex
            => /\ e.condFunc = B
               /\ e.negation
               /\ e.invoked = [method |-> B, regex |-> TRUE]
               /\ e.vals.called => e.ret = (e.vals.err = "nil" /\ ~e.vals.result)

\* C8: a Type of B+"RegexNot" is not resolved to (B, negate, regex), B is never
\* invoked with the regex flag for it, and B+"NotRegex" and B+"RegexNot" are not
\* both accepted.
C8_RegexNotNotResolved ==
    /\ \A i \in Evals : \A B \in Predicates :
        LET e == history[i]
        IN  e.Type = B \o regex \o not
            => /\ ~(e.condFunc = B /\ e.negation /\ e.invoked.regex)
               /\ ~(e.invoked.method = B /\ e.invoked.regex)
    /\ \A i, j \in Evals : \A B \in Predicates :
        ~ /\ history[i].Type = B \o not \o regex
          /\ history[i].invoked.method = B
          /\ history[j].Type = B \o regex \o not
          /\ history[j].invoked.method = B

C8_Witness ==
    \E i, j \in Evals :
        /\ history[i].Type = nFileContains \o not \o regex
        /\ history[j].Type = nFileContains \o regex \o not
        /\ history[j].outcome = "returned"

\* C10: the regex flag a predicate sees comes from the Type suffix alone,
\* whatever flag the caller passed in; "Regex" is accepted on every base
\* predicate; and for PathExists, FileEquals and CommandOutput, T+"Regex" gives
\* the outcome of T.
C10_RegexFromSuffixOnly ==
    /\ \A i \in Evals :
        history[i].invoked.method \in Predicates
        => history[i].invoked.regex = EndsWith(history[i].Type, regex)
    /\ \A i \in Evals : \A B \in Predicates :
        history[i].Type = B \o regex
        => history[i].invoked.method = B /\ ~NoSuchMethod(history[i])
    /\ \A i, j \in Evals : \A T \in {nPathExists, nFileEquals, nCommandOutput} :
        (history[i].Type = T /\ history[j].Type = T \o regex)
        => /\ history[j].outcome = history[i].outcome
           /\ history[j].ret = history[i].ret

\* the caller passed regex = true, and FileEquals held with and without "Regex"
C10_Witness ==
    \E i, j \in Evals :
        /\ history[i].given.regex
        /\ history[i].Type = nFileEquals /\ history[i].ret
        /\ history[j].Type = nFileEquals \o regex /\ history[j].ret

\* the Types that name a predicate, bare or with the one suffix runCheck strips
Decodable == UNION {{B, B \o not, B \o regex} : B \in Predicates}

\* C4: a Type that decodes to no predicate is reported through fail (too short,
\* or "Check type does not exist" naming what was looked up), no predicate runs,
\* Type is never indexed out of range, and runCheck never returns true.
C4_UnknownTypeFails ==
    \A i \in Evals :
        LET e == history[i]
            short == Msg("fail", "is not long enough to be valid", e.Type, "")
        IN  e.Type \notin Decodable
            => /\ e.outcome = "returned"
               /\ ~e.ret
               /\ e.invoked.method \notin Predicates
               /\ ~e.vals.called
               /\ Len(e.Type) <= 5 => Count(e.log, short) = 1 /\ ~NoSuchMethod(e)
               /\ Len(e.Type) > 5
                  => /\ Count(e.log, short) = 0
                     /\ \E m \in DOMAIN e.log :
                          /\ m.what = "Check type does not exist"
                          /\ e.log[m] = 1
                          /\ \/ m.type = e.Type
                             \/ e.Type = m.type \o not
                             \/ e.Type = m.type \o regex

\* the empty Type, an unknown name and String were all evaluated
C4_Witness ==
    \E i, j, k \in Evals :
        /\ history[i].Type = <<>>
        /\ history[j].Type = nExists
        /\ history[k].Type = nString
        /\ history[k].invoked.method = nString
        /\ history[k].outcome = "returned"

RequiredSlots(type) ==
    CASE type = nPathExists -> {"Path"}
      [] type \in {nFileContains, nFileEquals, nDirContains} -> {"Path", "Value"}
      [] type \in {nCommandOutput, nCommandContains} -> {"Cmd", "Value"}

\* C6: with every required slot filled, one evaluation sends no fatal failure
\* and exactly one warning per filled slot that is not required, and runs the
\* predicate; an empty required slot is a fatal failure naming the predicate and
\* the slot.
C6_OneWarningPerUnusedSlot ==
    \A i \in Evals :
        LET e == history[i]
            c == e.given
            req == RequiredSlots(e.Type)
            unused(s) == Msg("warn", "specifying unused argument", e.Type, s)
            missing(s) == Msg("fail", "missing required argument", e.Type, s)
        IN  e.Type \in Predicates
            => /\ (\A s \in req : c[s] # <<>>)
                  => /\ \A m \in DOMAIN e.log : m.sev # "fail"
                     /\ \A s \in SlotSet \ req :
                          Count(e.log, unused(s)) = IF c[s] # <<>> THEN 1 ELSE 0
                     /\ e.invoked.method = e.Type
               /\ \A s \in req : c[s] = <<>> => Count(e.log, missing(s)) >= 1

\* the lines of a content: its longest pieces without a line feed
LinesOf(content) ==
    {SubSeq(content, a, b) :
        <<a, b>> \in {p \in (1..(Len(content) + 1)) \X (0..Len(content)) :
                        /\ p[1] <= p[2] + 1
                        /\ \A k \in p[1]..p[2] : content[k] # "\n"
                        /\ p[1] = 1 \/ content[p[1] - 1] = "\n"
                        /\ p[2] = Len(content) \/ content[p[2] + 1] = "\n"}}

\* the file can be read and one of its lines holds the value
HoldsValue(f, value) ==
    f.err = "nil" /\ \E line \in LinesOf(f.content) : Contains(line, value)

FileRuns(t) == {k \in DOMAIN t : t[k].kind = "file"}

RECURSIVE SumRuns(_, _)
SumRuns(t, ks) ==
    IF ks = {} THEN 0
    ELSE LET k == CHOOSE x \in ks : TRUE IN t[k].n + SumRuns(t, ks \ {k})

NonDirFiles(t) == SumRuns(t, FileRuns(t))

MatchingFiles(t, value) ==
    SumRuns(t, {k \in FileRuns(t) : HoldsValue(t[k].file, value)})

\* the files walked before entry k
FilesBefore(t, k) == SumRuns(t, {j \in FileRuns(t) : j < k})

\* the walk comes to an entry for which it has no FileInfo
WalkPanics(t) ==
    \E k \in DOMAIN t : t[k].kind = "nilinfo" /\ FilesBefore(t, k) <= MaxFiles

\* a file walked before the one that holds the value cannot be read for lack of
\* permission
PermissionBeforeMatch(t, value) ==
    \E k, m \in FileRuns(t) :
        /\ k < m
        /\ HoldsValue(t[m].file, value)
        /\ t[k].file.err = "perm"

Visited(e, k) ==
    /\ e.vals.called
    /\ k \in FileRuns(host.tree)
    /\ e.vals.reads > FilesBefore(host.tree, k)

\* a stat, a read, a command, an Lstat of the walk or the compilation of the
\* pattern failed while the predicate ran
FailureDuring(e) ==
    LET m == e.invoked.method
        badPattern == e.invoked.regex /\ ~Compiles(e.given.Value)
    IN  \/ m \in {nPathExists, nDirContains} /\ host.stat \notin {"nil", "notexist"}
        \/ m \in {nFileContains, nFileEquals} /\ host.file.err # "nil"
        \/ m = nFileContains /\ host.file.err = "nil" /\ badPattern
        \/ m \in {nCommandOutput, nCommandContains} /\ host.cmd.err # "nil"
        \/ m = nCommandContains /\ host.cmd.err = "nil" /\ badPattern
        \/ /\ m = nDirContains
           /\ host.stat = "nil"
           /\ \/ WalkPanics(host.tree)
              \/ \E k \in DOMAIN host.tree :
                    Visited(e, k) /\ (host.tree[k].file.err # "nil" \/ badPattern)

\* C3: whenever a filesystem, permission or command failure, or a malformed
\* pattern, occurs while a predicate runs, runCheck returns false and does not
\* crash, for the plain Type and the "Not" Type alike.
C3_FailureIsFalse ==
    \A i \in Evals :
        FailureDuring(history[i])
        => history[i].outcome = "returned" /\ ~history[i].ret

====
